---- MODULE Spec2Model ----
(***************************************************************************)
(* Patch pipeline and training loop of the hyperspectral trainer.          *)
(*                                                                         *)
(*   train.py                     train(), validate(), save_checkpoint(),  *)
(*                                compute_accuracy(), main()               *)
(*   source/cnn/train.py          main() of the multi-task entry point     *)
(*   source/cnn/input/data_loader.py   HypDataset, get_loader()            *)
(*                                                                         *)
(* Each sub-system has its own specification over the shared variables;    *)
(* the variables of the other sub-systems stay at their idle values.       *)
(***************************************************************************)
EXTENDS Integers, Sequences, FiniteSets, TLC

VARIABLES
    \* ---- train() of train.py
    pc,          \* position in train(): "idle", "loop", "zero", "fwd", "bwd", "step",
                 \* "avg", "val", "sched", "ckpt", "done", "error"
    e,           \* loop variable of "for e in range(epoch + 1)"
    optEpoch,    \* options.epoch
    trainLen,    \* len(train_loader.dataset)
    valLen,      \* len(val_loader.dataset)
    batchSize,   \* options.batch_size
    schedKind,   \* type of the scheduler argument: "plateau", "other", "none"
    batchIdx,    \* idx of the training batch being processed
    valIdx,      \* idx of the next validation batch
    trainStep,   \* train_step
    params,      \* version of the model parameters (bumped by every update)
    optSteps,    \* optimizer state: number of steps applied
    gradCount,   \* backward passes accumulated in .grad since the last zero_grad()
    optLr,       \* options.lr, in units of the scheduler's eps
    lr,          \* optimizer.param_groups[0]['lr'], same units
    best,        \* ReduceLROnPlateau.best: <<>> is +inf, <<v>> is v
    numBad,      \* ReduceLROnPlateau.num_bad_epochs
    schedSteps,  \* scheduler.last_epoch: number of step() calls
    valAcc,      \* val_accuracy of the last validate(), a percentage level
    ckpts,       \* files written by save_checkpoint
    lossKinds,   \* what loss_fn can return on this run's data: "finite", "nan", "inf"
    loss,        \* the loss of the current batch, by kind
    stateFinite, \* parameters and optimizer state hold finite values only
    \* ---- history of train(), written by the actions, read only by the properties
    hist,        \* counters of phases started and finished, per phase name
    accBest,     \* highest val_accuracy fed to the scheduler so far (-1: none)
    accBadRun,   \* trailing number of epochs whose val_accuracy did not exceed accBest
    \* ---- compute_accuracy of train.py
    accGroups,   \* class counts of metadata['categorical'], in the dict's order
    accPredict,  \* predict: one row of scores per example
    accTgt,      \* tgt: one row of labels per example
    accResult,   \* the value returned: <<>> before the call, <<numerator, denominator>>
    \* ---- the DataLoader built by get_loader, source/cnn/input/data_loader.py
    ldLen,       \* len(dataset)
    ldBatch,     \* batch_size
    ldWorkers,   \* num_workers
    ldPc,        \* "idle": no iterator; "iter": a pass is in progress
    ldEnded,     \* how the last pass ended: "none", "exhausted", "abandoned"
    ldPass,      \* passes begun
    ldPerm,      \* the sampler's order of this pass
    ldSend,      \* send_idx: batches handed to the workers
    ldRcvd,      \* rcvd_idx: batches returned to the caller
    ldQueues,    \* per worker, the batch indices waiting in its index queue
    ldData,      \* the data queue: <<batch index, batch>> in order of completion
    ldCache,     \* batches received ahead of their turn
    ldDelivered, \* the batches the pass has returned, in order
    \* ---- split_data and its two call sites
    spEntry,     \* the calling main(): "multitask" (source/cnn/train.py), "single" (train.py)
    spRows,      \* R
    spCols,      \* C
    spMask,      \* cells whose mask value marks a usable label
    spPatch,     \* options.patch_size
    spStride,    \* options.patch_stride / options.patch_step
    spPc,        \* "call" before split_data, "split" after it
    spSets,      \* the coordinate sets as the caller names them: train, val, test
    \* ---- main() of source/cnn/train.py, started with or without -train_from
    rsPc,        \* position in main(), "training" once trainer.train() is entered
    rsError,     \* the exception that ended the run, "" if none
    rsCmd,       \* the options as parsed from the command line
    rsTrainFrom, \* options.train_from is set
    rsPrev,      \* state of the run that saved the checkpoint, at the time of the save
    rsFile,      \* the checkpoint file at options.train_from
    rsCheckpoint,\* the variable checkpoint: <<>> is None
    rsOptions,   \* options, as in effect
    rsModel,     \* <<>> while model is unbound, else <<parameter version>> (0: fresh)
    rsOpt,       \* <<>> before the optimizer exists, else <<[lr, steps]>>
    rsSched,     \* <<>> before the scheduler exists, else <<[best, numBad]>>
    rsEpoch,     \* the epoch index the trainer starts from
    rsComputed,  \* the computations done so far
    \* ---- HypDataset of input/data_loader.py
    dsPc,        \* "idle", "ready" once constructed
    dsImage,     \* self.hyper_image, a tensor of shape rows x cols x bands
    dsMultiplier,\* self.multiplier: <<>> is None, else <<tensor of shape rows x cols>>
    dsLabelsCls, \* self.hyper_labels_cls, rows x cols x classes (classes may be 0)
    dsLabelsReg, \* self.hyper_labels_reg, rows x cols x labels (labels may be 0)
    dsCoords,    \* self.coords
    dsPatchSize, \* self.patch_size
    dsModelName, \* self.model_name
    dsIs3d,      \* self.is_3d_convolution
    dsMin,       \* self.img_min
    dsMax,       \* self.img_max
    dsOut,       \* what the last __getitem__ returned: <<>> or <<[src, tgt_cls, tgt_reg, idx]>>
    dsFirst,     \* per index, what the first __getitem__ of it returned (history)
    dsCalls,     \* number of __getitem__ calls so far (history)
    \* ---- the label volume as the two main() slice it
    slPc,        \* "idle", "loaded", "sliced"
    slEntry,     \* which main() slices: "multitask" (source/cnn/train.py), "single" (train.py)
    slLabels,    \* hyper_labels along its band axis: a sequence of [band, value], one pixel
    slClasses,   \* metadata['num_classes']
    slCls,       \* hyper_labels_cls
    slReg,       \* hyper_labels_reg
    \* ---- validate() of train.py over one validation set
    vlPc,        \* "idle", "loop", "done"
    vlGroups,    \* sizes of the class groups of metadata['categorical']
    vlPredict,   \* the network's output row per validation example, in loader order
    vlTgt,       \* the target row per validation example, in loader order
    vlBatchSize, \* batch size of val_loader
    vlIdx,       \* idx of the next batch
    vlSum,       \* sum_accuracy as a fraction <<numerator, denominator>>
    vlResult     \* the accuracy validate() returned: <<>> or <<numerator, denominator>>

trainVars == <<pc, e, optEpoch, lossKinds, loss, stateFinite, optLr, trainLen, valLen, batchSize, schedKind, batchIdx, valIdx,
               trainStep, params, optSteps, gradCount, lr, best, numBad, schedSteps,
               valAcc, ckpts, hist, accBest, accBadRun>>

accVars == <<accGroups, accPredict, accTgt, accResult>>

loaderVars == <<ldLen, ldBatch, ldWorkers, ldPc, ldEnded, ldPass, ldPerm, ldSend, ldRcvd,
                ldQueues, ldData, ldCache, ldDelivered>>

splitVars == <<spEntry, spRows, spCols, spMask, spPatch, spStride, spPc, spSets>>

resumeVars == <<rsPc, rsError, rsCmd, rsTrainFrom, rsPrev, rsFile, rsCheckpoint, rsOptions,
                rsModel, rsOpt, rsSched, rsEpoch, rsComputed>>

datasetVars == <<dsPc, dsImage, dsMultiplier, dsLabelsCls, dsLabelsReg, dsCoords, dsPatchSize,
                 dsModelName, dsIs3d, dsMin, dsMax, dsOut, dsFirst, dsCalls>>

sliceVars == <<slPc, slEntry, slLabels, slClasses, slCls, slReg>>

validateVars == <<vlPc, vlGroups, vlPredict, vlTgt, vlBatchSize, vlIdx, vlSum, vlResult>>

vars == <<trainVars, accVars, loaderVars, splitVars, resumeVars, datasetVars, sliceVars,
          validateVars>>

notTrainVars == <<accVars, loaderVars, splitVars, resumeVars, datasetVars, sliceVars,
    validateVars>>
notAccVars == <<trainVars, loaderVars, splitVars, resumeVars, datasetVars, sliceVars,
    validateVars>>
notLoaderVars == <<trainVars, accVars, splitVars, resumeVars, datasetVars, sliceVars,
    validateVars>>
notSplitVars == <<trainVars, accVars, loaderVars, resumeVars, datasetVars, sliceVars,
    validateVars>>
notResumeVars == <<trainVars, accVars, loaderVars, splitVars, datasetVars, sliceVars,
    validateVars>>
notDatasetVars == <<trainVars, accVars, loaderVars, splitVars, resumeVars, sliceVars,
    validateVars>>
notSliceVars == <<trainVars, accVars, loaderVars, splitVars, resumeVars, datasetVars,
    validateVars>>
notValidateVars == <<trainVars, accVars, loaderVars, splitVars, resumeVars, datasetVars,
    sliceVars>>

-----------------------------------------------------------------------------
\* Bounds of the model.
MaxEpoch == 7
MaxLen == 3
MaxBatchSize == 2

MaxExamples == 2
MaxWorkers == 2
MaxPasses == 3
MaxSide == 2
MaxSavedEpoch == 2

\* Program constants.
SaveEvery == 1
Patience == 5
FactorDen == 2
ThresholdDen == 10000
LrEps == 1

LrChoices == {2, 4}
AccLevels == {0, 50, 100}
SchedKinds == {"plateau", "other", "none"}
AllFields == {"model", "optimizer", "scheduler", "options", "epoch"}
Phases == {"trainStart", "trainEnd", "valStart", "valEnd", "sched", "ckpt"}

-----------------------------------------------------------------------------
\* Variant: the loader is built with drop_last = True.
NumBatchesDropLast(length, bs) == length \div bs

\* len(DataLoader) with drop_last = False: ceil(length / batch_size).
NumBatches(length, bs) == (length + bs - 1) \div bs

Bump(h, ph) == [h EXCEPT ![ph] = @ + 1]

\* Variant: the accuracy is handed to the mode-'min' scheduler without the sign change.
MetricUnsigned(acc) == acc

\* metric = -val_accuracy
Metric(acc) == 0 - acc

\* ReduceLROnPlateau.is_better, mode 'min', threshold_mode 'rel', threshold 1e-4:
\* a < best * (1 - 1e-4).
IsBetter(a, b) == b = <<>> \/ a * ThresholdDen < b[1] * (ThresholdDen - 1)

\* ReduceLROnPlateau._reduce_lr: new_lr = max(old_lr * factor, min_lr) with min_lr = 0,
\* applied only if old_lr - new_lr > eps.
ReduceLr(old) ==
    LET new == old \div FactorDen
    IN  IF old - new > LrEps THEN new ELSE old

\* The checkpoint file written by save_checkpoint: torch.save(model.state_dict(), ...).
CheckpointFile(epochNo, modelParams) ==
    [epoch_name |-> epochNo, fields |-> {"model"}, model |-> modelParams]

-----------------------------------------------------------------------------
AccIdle == accGroups = <<>> /\ accPredict = <<>> /\ accTgt = <<>> /\ accResult = <<>>

LoaderIdle ==
    /\ ldLen = 0 /\ ldBatch = 1 /\ ldWorkers = 0 /\ ldPc = "idle" /\ ldEnded = "none"
    /\ ldPass = 0 /\ ldPerm = <<>> /\ ldSend = 0 /\ ldRcvd = 0 /\ ldQueues = <<>>
    /\ ldData = <<>> /\ ldCache = {} /\ ldDelivered = <<>>

NoSets == [train |-> <<>>, val |-> <<>>, test |-> <<>>]

SplitIdle ==
    /\ spEntry = "none" /\ spRows = 0 /\ spCols = 0 /\ spMask = {} /\ spPatch = 1
    /\ spStride = 1 /\ spPc = "idle" /\ spSets = NoSets

ResumeIdle ==
    /\ rsPc = "idle" /\ rsError = "" /\ rsCmd = <<>> /\ rsTrainFrom = FALSE /\ rsPrev = <<>>
    /\ rsFile = <<>> /\ rsCheckpoint = <<>> /\ rsOptions = <<>> /\ rsModel = <<>>
    /\ rsOpt = <<>> /\ rsSched = <<>> /\ rsEpoch = 0 /\ rsComputed = {}

DatasetIdle ==
    /\ dsPc = "idle" /\ dsImage = <<>> /\ dsMultiplier = <<>> /\ dsLabelsCls = <<>>
    /\ dsLabelsReg = <<>> /\ dsCoords = <<>> /\ dsPatchSize = 1 /\ dsModelName = ""
    /\ dsIs3d = FALSE /\ dsMin = 0 /\ dsMax = 0 /\ dsOut = <<>> /\ dsFirst = <<>>
    /\ dsCalls = 0

SliceIdle ==
    /\ slPc = "idle" /\ slEntry = "" /\ slLabels = <<>> /\ slClasses = 0
    /\ slCls = <<>> /\ slReg = <<>>

ValidateIdle ==
    /\ vlPc = "idle" /\ vlGroups = <<>> /\ vlPredict = <<>> /\ vlTgt = <<>>
    /\ vlBatchSize = 1 /\ vlIdx = 0 /\ vlSum = <<0, 1>> /\ vlResult = <<>>

-----------------------------------------------------------------------------
TrainIdle ==
    /\ pc = "idle" /\ e = 0 /\ optEpoch = 0 /\ trainLen = 0 /\ valLen = 0
    /\ batchSize = 1 /\ schedKind = "none" /\ batchIdx = 0 /\ valIdx = 0
    /\ trainStep = 0 /\ params = 0 /\ optSteps = 0 /\ gradCount = 0
    /\ optLr = 0 /\ lr = 0
    /\ best = <<>> /\ numBad = 0 /\ schedSteps = 0 /\ valAcc = 0 /\ ckpts = {}
    /\ lossKinds = {} /\ loss = "finite" /\ stateFinite = TRUE
    /\ hist = [ph \in Phases |-> 0] /\ accBest = 0 - 1 /\ accBadRun = 0

\* State on entry to train(): lines 174-183.
TrainInitOver(epochs, kinds) ==
    /\ pc = "loop" /\ e = 0
    /\ optEpoch \in epochs
    /\ trainLen \in 0..MaxLen
    /\ valLen \in 0..MaxLen
    /\ batchSize \in 1..MaxBatchSize
    /\ schedKind \in SchedKinds
    /\ batchIdx = 0 /\ valIdx = 0 /\ trainStep = 0
    /\ params = 0 /\ optSteps = 0 /\ gradCount = 0
    /\ optLr \in LrChoices
    /\ lr = optLr
    /\ best = <<>> /\ numBad = 0 /\ schedSteps = 0
    /\ valAcc = 0 /\ ckpts = {}
    /\ hist = [ph \in Phases |-> 0] /\ accBest = 0 - 1 /\ accBadRun = 0
    /\ lossKinds = kinds /\ loss = "finite" /\ stateFinite = TRUE

\* A run on data for which every loss is finite.
TrainInit == TrainInitOver((0 - 1)..MaxEpoch, {"finite"})

\* A short run on data for which the loss can come out NaN or infinite.
TrainInitNumeric == TrainInitOver(0..1, {"finite", "nan", "inf"})

\* for e in range(epoch + 1): one more iteration; net.train(); epoch_loss = 0.
StartEpoch ==
    /\ UNCHANGED notTrainVars
    /\ pc = "loop" /\ e < optEpoch + 1
    /\ batchIdx' = 0
    /\ hist' = Bump(hist, "trainStart")
    /\ pc' = IF NumBatches(trainLen, batchSize) > 0 THEN "zero" ELSE "avg"
    /\ UNCHANGED <<e, optEpoch, lossKinds, loss, stateFinite,
                   optLr, trainLen, valLen, batchSize, schedKind, valIdx, trainStep,
                   params, optSteps, gradCount, lr, best, numBad, schedSteps, valAcc,
                   ckpts, accBest, accBadRun>>

\* range(epoch + 1) is exhausted: train() returns.
LoopExit ==
    /\ UNCHANGED notTrainVars
    /\ pc = "loop" /\ ~(e < optEpoch + 1)
    /\ pc' = "done"
    /\ UNCHANGED <<e, optEpoch, lossKinds, loss, stateFinite,
                   optLr, trainLen, valLen, batchSize, schedKind, batchIdx, valIdx,
                   trainStep, params, optSteps, gradCount, lr, best, numBad, schedSteps,
                   valAcc, ckpts, hist, accBest, accBadRun>>

\* Variant: the gradients are not reset at the start of a batch.
ZeroGradSkipped ==
    /\ UNCHANGED notTrainVars
    /\ pc = "zero"
    /\ pc' = "fwd"
    /\ UNCHANGED <<e, optEpoch, lossKinds, loss, stateFinite,
                   optLr, trainLen, valLen, batchSize, schedKind, batchIdx, valIdx,
                   trainStep, params, optSteps, gradCount, lr, best, numBad, schedSteps, valAcc,
                   ckpts, hist, accBest, accBadRun>>

\* optimizer.zero_grad()
ZeroGrad ==
    /\ UNCHANGED notTrainVars
    /\ pc = "zero"
    /\ gradCount' = 0
    /\ pc' = "fwd"
    /\ UNCHANGED <<e, optEpoch, lossKinds, loss, stateFinite,
                   optLr, trainLen, valLen, batchSize, schedKind, batchIdx, valIdx,
                   trainStep, params, optSteps, lr, best, numBad, schedSteps, valAcc,
                   ckpts, hist, accBest, accBadRun>>

\* predict = net(src); loss = loss_fn(predict, tgt); the loss accumulators. Parameters
\* that hold a NaN give a NaN loss.
Forward ==
    /\ UNCHANGED notTrainVars
    /\ pc = "fwd"
    /\ loss' \in (IF stateFinite THEN lossKinds ELSE {"nan"})
    /\ pc' = "bwd"
    /\ UNCHANGED <<e, optEpoch, lossKinds, stateFinite,
                   optLr, trainLen, valLen, batchSize, schedKind, batchIdx, valIdx,
                   trainStep, params, optSteps, gradCount, lr, best, numBad, schedSteps,
                   valAcc, ckpts, hist, accBest, accBadRun>>

\* loss.backward()
Backward ==
    /\ UNCHANGED notTrainVars
    /\ pc = "bwd"
    /\ gradCount' = gradCount + 1
    /\ pc' = "step"
    /\ UNCHANGED <<e, optEpoch, lossKinds, loss, stateFinite,
                   optLr, trainLen, valLen, batchSize, schedKind, batchIdx, valIdx,
                   trainStep, params, optSteps, lr, best, numBad, schedSteps, valAcc,
                   ckpts, hist, accBest, accBadRun>>

\* Variant: the pass over the training batches ends one batch early.
OptimizerStepEarlyExit ==
    /\ UNCHANGED notTrainVars
    /\ pc = "step"
    /\ params' = params + 1
    /\ optSteps' = optSteps + 1
    /\ stateFinite' = (stateFinite /\ loss = "finite")
    /\ trainStep' = trainStep + 1
    /\ batchIdx' = batchIdx + 1
    /\ pc' = IF batchIdx + 2 < NumBatches(trainLen, batchSize) THEN "zero" ELSE "avg"
    /\ UNCHANGED <<e, optEpoch, lossKinds, loss,
                   optLr, trainLen, valLen, batchSize, schedKind, valIdx, gradCount,
                   lr, best, numBad, schedSteps, valAcc, ckpts, hist, accBest, accBadRun>>

\* optimizer.step(), taken whatever the loss: the gradients of a non-finite loss put
\* non-finite values into the parameters and the optimizer's moments; the report;
\* train_step += 1; the next batch or the end of the pass
OptimizerStep ==
    /\ UNCHANGED notTrainVars
    /\ pc = "step"
    /\ params' = params + 1
    /\ optSteps' = optSteps + 1
    /\ stateFinite' = (stateFinite /\ loss = "finite")
    /\ trainStep' = trainStep + 1
    /\ batchIdx' = batchIdx + 1
    /\ pc' = IF batchIdx + 1 < NumBatches(trainLen, batchSize) THEN "zero" ELSE "avg"
    /\ UNCHANGED <<e, optEpoch, lossKinds, loss,
                   optLr, trainLen, valLen, batchSize, schedKind, valIdx, gradCount,
                   lr, best, numBad, schedSteps, valAcc, ckpts, hist, accBest, accBadRun>>

\* epoch_loss = epoch_loss / len(train_loader): ZeroDivisionError on an empty loader;
\* otherwise validate() is entered (val_loader is the loader main() built).
EpochAverage ==
    /\ UNCHANGED notTrainVars
    /\ pc = "avg"
    /\ IF NumBatches(trainLen, batchSize) = 0
       THEN /\ pc' = "error"
            /\ UNCHANGED <<valIdx, hist>>
       ELSE /\ pc' = "val"
            /\ valIdx' = 0
            /\ hist' = Bump(Bump(hist, "trainEnd"), "valStart")
    /\ UNCHANGED <<e, optEpoch, lossKinds, loss, stateFinite,
                   optLr, trainLen, valLen, batchSize, schedKind, batchIdx, trainStep,
                   params, optSteps, gradCount, lr, best, numBad, schedSteps, valAcc,
                   ckpts, accBest, accBadRun>>

\* Variant: the validation loop back-propagates and steps the optimizer.
ValidateBatchTraining ==
    /\ UNCHANGED notTrainVars
    /\ pc = "val" /\ valIdx < NumBatches(valLen, batchSize)
    /\ valIdx' = valIdx + 1
    /\ gradCount' = gradCount + 1
    /\ params' = params + 1
    /\ optSteps' = optSteps + 1
    /\ UNCHANGED <<pc, e, optEpoch, lossKinds, loss, stateFinite,
                   optLr, trainLen, valLen, batchSize, schedKind, batchIdx,
                   trainStep, lr, best, numBad, schedSteps, valAcc, ckpts, hist, accBest,
                   accBadRun>>

\* One iteration of validate()'s loop: forward pass and accuracy under torch.no_grad().
ValidateBatch ==
    /\ UNCHANGED notTrainVars
    /\ pc = "val" /\ valIdx < NumBatches(valLen, batchSize)
    /\ valIdx' = valIdx + 1
    /\ UNCHANGED <<pc, e, optEpoch, lossKinds, loss, stateFinite,
                   optLr, trainLen, valLen, batchSize, schedKind, batchIdx,
                   trainStep, params, optSteps, gradCount, lr, best, numBad, schedSteps,
                   valAcc, ckpts, hist, accBest, accBadRun>>

\* validate() returns: the averages divide by len(val_loader), ZeroDivisionError on an
\* empty loader. The accuracy is whatever the network's outputs give.
ValidateReturn ==
    /\ UNCHANGED notTrainVars
    /\ pc = "val" /\ ~(valIdx < NumBatches(valLen, batchSize))
    /\ IF NumBatches(valLen, batchSize) = 0
       THEN /\ pc' = "error"
            /\ UNCHANGED <<valAcc, hist>>
       ELSE /\ pc' = "sched"
            /\ valAcc' \in AccLevels
            /\ hist' = Bump(hist, "valEnd")
    /\ UNCHANGED <<e, optEpoch, lossKinds, loss, stateFinite,
                   optLr, trainLen, valLen, batchSize, schedKind, batchIdx, valIdx,
                   trainStep, params, optSteps, gradCount, lr, best, numBad, schedSteps,
                   ckpts, accBest, accBadRun>>

\* ReduceLROnPlateau.step(metric), cooldown 0.
PlateauStep(m) ==
    LET better == IsBetter(m, best)
        bad == IF better THEN 0 ELSE numBad + 1
    IN  /\ best' = IF better THEN <<m>> ELSE best
        /\ schedSteps' = schedSteps + 1
        /\ IF bad > Patience
           THEN lr' = ReduceLr(lr) /\ numBad' = 0
           ELSE lr' = lr /\ numBad' = bad

\* Lines 222-226: the scheduler is stepped by its type.
SchedulerStep ==
    /\ UNCHANGED notTrainVars
    /\ pc = "sched"
    /\ CASE schedKind = "plateau" -> PlateauStep(Metric(valAcc))
         [] schedKind = "other" ->
                /\ schedSteps' = schedSteps + 1
                /\ lr' \in {lr, lr \div FactorDen}
                /\ UNCHANGED <<best, numBad>>
         [] OTHER -> UNCHANGED <<schedSteps, lr, best, numBad>>
    /\ hist' = Bump(hist, "sched")
    /\ accBest' = IF valAcc > accBest THEN valAcc ELSE accBest
    /\ accBadRun' = IF valAcc > accBest THEN 0 ELSE accBadRun + 1
    /\ pc' = "ckpt"
    /\ UNCHANGED <<e, optEpoch, lossKinds, loss, stateFinite,
                   optLr, trainLen, valLen, batchSize, schedKind, batchIdx, valIdx,
                   trainStep, params, optSteps, gradCount, valAcc, ckpts>>

\* Lines 235-237: if e % save_every == 0, save_checkpoint(net, save_dir, e + 1);
\* then the next iteration of the epoch loop.
CheckpointMaybe ==
    /\ UNCHANGED notTrainVars
    /\ pc = "ckpt"
    /\ ckpts' = IF e % SaveEvery = 0
                THEN ckpts \cup {CheckpointFile(e + 1, params)}
                ELSE ckpts
    /\ hist' = Bump(hist, "ckpt")
    /\ e' = e + 1
    /\ pc' = "loop"
    /\ UNCHANGED <<optEpoch, lossKinds, loss, stateFinite,
                   optLr, trainLen, valLen, batchSize, schedKind, batchIdx, valIdx,
                   trainStep, params, optSteps, gradCount, lr, best, numBad, schedSteps,
                   valAcc, accBest, accBadRun>>

TrainNext ==
    \/ StartEpoch
    \/ LoopExit
    \/ ZeroGrad
    \/ Forward
    \/ Backward
    \/ OptimizerStep
    \/ EpochAverage
    \/ ValidateBatch
    \/ ValidateReturn
    \/ SchedulerStep
    \/ CheckpointMaybe

Init == TrainInit /\ AccIdle /\ LoaderIdle /\ SplitIdle /\ ResumeIdle /\ DatasetIdle
    /\ SliceIdle /\ ValidateIdle
Next == TrainNext
Spec == Init /\ [][Next]_vars

InitNumeric == TrainInitNumeric /\ AccIdle /\ LoaderIdle /\ SplitIdle /\ ResumeIdle /\ DatasetIdle
    /\ SliceIdle /\ ValidateIdle
SpecNumeric == InitNumeric /\ [][TrainNext]_vars

-----------------------------------------------------------------------------
\* compute_accuracy(predict, tgt, metadata), train.py.

Layouts == {<<2>>, <<2, 3>>, <<1, 2>>, <<3, 2>>}

OneHot(c, k) == [j \in 1..c |-> IF j = k THEN 1 ELSE 0]

\* The label slice of one group is one-hot; a score slice has one highest class or is
\* flat (a tie).
TgtSlices(c) == {OneHot(c, k) : k \in 1..c}
PredSlices(c) == TgtSlices(c) \cup {[j \in 1..c |-> 0]}

RECURSIVE TgtRows(_)
TgtRows(layout) ==
    IF layout = <<>> THEN {<<>>}
    ELSE {s \o r : s \in TgtSlices(Head(layout)), r \in TgtRows(Tail(layout))}

RECURSIVE PredRows(_)
PredRows(layout) ==
    IF layout = <<>> THEN {<<>>}
    ELSE {s \o r : s \in PredSlices(Head(layout)), r \in PredRows(Tail(layout))}

\* tensor.argmax(1) of one row: the index of the first highest value.
ArgMax(v) ==
    CHOOSE i \in 1..Len(v) :
        /\ \A j \in 1..Len(v) : v[j] <= v[i]
        /\ \A j \in 1..(i - 1) : v[j] < v[i]

\* x[:, num_classes:(num_classes + count)] of one row
Slice(row, numClasses, count) == SubSeq(row, numClasses + 1, numClasses + count)

\* torch.sum(pred_indices == tgt_indices).item()
TruePositive(predict, tgt, numClasses, count) ==
    Cardinality({i \in 1..Len(predict) :
        ArgMax(Slice(predict[i], numClasses, count)) = ArgMax(Slice(tgt[i], numClasses, count))})

\* Variant: the class offset is not advanced after a group.
NextOffsetStuck(numClasses, count) == numClasses

\* num_classes += count
NextOffset(numClasses, count) == numClasses + count

\* The loop "for idx, values in categorical.items()".
RECURSIVE AccLoop(_, _, _, _, _)
AccLoop(groups, predict, tgt, numClasses, nCorrect) ==
    IF groups = <<>> THEN nCorrect
    ELSE LET count == Head(groups)
         IN  AccLoop(Tail(groups), predict, tgt, NextOffset(numClasses, count),
                     nCorrect + TruePositive(predict, tgt, numClasses, count))

\* n_correct / (len(predict) * len(categorical.keys())), as numerator and denominator.
ComputeAccuracyOf(predict, tgt, groups) ==
    <<AccLoop(groups, predict, tgt, 0, 0), Len(predict) * Len(groups)>>

AccInit ==
    /\ accGroups \in Layouts
    /\ \E n \in 1..MaxExamples :
          /\ accPredict \in [1..n -> PredRows(accGroups)]
          /\ accTgt \in [1..n -> TgtRows(accGroups)]
    /\ accResult = <<>>

ComputeAccuracy ==
    /\ UNCHANGED notAccVars
    /\ accResult = <<>>
    /\ accResult' = ComputeAccuracyOf(accPredict, accTgt, accGroups)
    /\ UNCHANGED <<accGroups, accPredict, accTgt>>

AccNext == ComputeAccuracy

InitAccuracy == TrainIdle /\ AccInit /\ LoaderIdle /\ SplitIdle /\ ResumeIdle /\ DatasetIdle
    /\ SliceIdle /\ ValidateIdle
SpecAccuracy == InitAccuracy /\ [][AccNext]_vars

-----------------------------------------------------------------------------
\* get_loader: data.DataLoader(dataset, batch_size, shuffle, num_workers), and the
\* passes main() makes over it.

\* RandomSampler: a permutation of 0..length-1.
Perms(n) == {q \in [1..n -> 0..(n - 1)] : \A i, j \in 1..n : i # j => q[i] # q[j]}

Min(a, b) == IF a < b THEN a ELSE b

\* BatchSampler: the k-th batch (k from 0) of the sampler's order.
Batch(perm, bs, k) == SubSeq(perm, k * bs + 1, Min((k + 1) * bs, Len(perm)))

\* _try_put_index, round robin over the workers: batches lo..hi-1 are appended.
RECURSIVE PutIndices(_, _, _)
PutIndices(queues, lo, hi) ==
    IF lo >= hi THEN queues
    ELSE LET w == (lo % Len(queues)) + 1
         IN  PutIndices([queues EXCEPT ![w] = Append(@, lo)], lo + 1, hi)

LoaderInit ==
    /\ ldLen \in 0..MaxLen
    /\ ldBatch \in 1..MaxBatchSize
    /\ ldWorkers \in 0..MaxWorkers
    /\ ldPc = "idle" /\ ldEnded = "none" /\ ldPass = 0
    /\ ldPerm = <<>> /\ ldSend = 0 /\ ldRcvd = 0
    /\ ldQueues = [w \in 1..ldWorkers |-> <<>>]
    /\ ldData = <<>> /\ ldCache = {} /\ ldDelivered = <<>>

\* iter(loader): a new shuffled order; with workers, 2 * num_workers batches are
\* handed out ahead.
StartPass ==
    /\ UNCHANGED notLoaderVars
    /\ ldPc = "idle" /\ ldPass < MaxPasses
    /\ ldPerm' \in Perms(ldLen)
    /\ ldPass' = ldPass + 1
    /\ ldPc' = "iter"
    /\ ldRcvd' = 0 /\ ldData' = <<>> /\ ldCache' = {} /\ ldDelivered' = <<>>
    /\ ldSend' = IF ldWorkers = 0 THEN 0
                 ELSE Min(2 * ldWorkers, NumBatches(ldLen, ldBatch))
    /\ ldQueues' = IF ldWorkers = 0 THEN ldQueues
                   ELSE PutIndices([w \in 1..ldWorkers |-> <<>>], 0, ldSend')
    /\ UNCHANGED <<ldLen, ldBatch, ldWorkers, ldEnded>>

\* num_workers = 0: next() fetches the next batch in the caller's thread.
SingleNext ==
    /\ UNCHANGED notLoaderVars
    /\ ldPc = "iter" /\ ldWorkers = 0
    /\ ldRcvd < NumBatches(ldLen, ldBatch)
    /\ ldDelivered' = Append(ldDelivered, Batch(ldPerm, ldBatch, ldRcvd))
    /\ ldRcvd' = ldRcvd + 1
    /\ UNCHANGED <<ldLen, ldBatch, ldWorkers, ldPc, ldEnded, ldPass, ldPerm, ldSend,
                   ldQueues, ldData, ldCache>>

\* A worker takes the next batch index of its queue, fetches the examples and puts the
\* batch on the data queue.
WorkerFetch(w) ==
    /\ UNCHANGED notLoaderVars
    /\ ldPc = "iter" /\ ldQueues[w] # <<>>
    /\ LET k == Head(ldQueues[w])
       IN  /\ ldData' = Append(ldData, <<k, Batch(ldPerm, ldBatch, k)>>)
           /\ ldQueues' = [ldQueues EXCEPT ![w] = Tail(@)]
    /\ UNCHANGED <<ldLen, ldBatch, ldWorkers, ldPc, ldEnded, ldPass, ldPerm, ldSend, ldRcvd,
                   ldCache, ldDelivered>>

\* _process_data: rcvd_idx += 1, one more batch index is handed out, the batch returned.
ProcessData(batch) ==
    /\ ldDelivered' = Append(ldDelivered, batch)
    /\ ldRcvd' = ldRcvd + 1
    /\ IF ldSend < NumBatches(ldLen, ldBatch)
       THEN /\ ldQueues' = PutIndices(ldQueues, ldSend, ldSend + 1)
            /\ ldSend' = ldSend + 1
       ELSE UNCHANGED <<ldQueues, ldSend>>

\* next(): the batch whose turn it is has already been received.
NextFromCache ==
    /\ UNCHANGED notLoaderVars
    /\ ldPc = "iter" /\ ldWorkers > 0
    /\ \E c \in ldCache :
          /\ c[1] = ldRcvd
          /\ ProcessData(c[2])
          /\ ldCache' = ldCache \ {c}
    /\ UNCHANGED <<ldLen, ldBatch, ldWorkers, ldPc, ldEnded, ldPass, ldPerm, ldData>>

\* next(): a batch is taken from the data queue; it is returned if it is the one whose
\* turn it is, and kept aside otherwise.
NextFromQueue ==
    /\ UNCHANGED notLoaderVars
    /\ ldPc = "iter" /\ ldWorkers > 0
    /\ \A c \in ldCache : c[1] # ldRcvd
    /\ ldData # <<>>
    /\ ldData' = Tail(ldData)
    /\ IF Head(ldData)[1] = ldRcvd
       THEN /\ ProcessData(Head(ldData)[2])
            /\ UNCHANGED ldCache
       ELSE /\ ldCache' = ldCache \cup {Head(ldData)}
            /\ UNCHANGED <<ldDelivered, ldRcvd, ldQueues, ldSend>>
    /\ UNCHANGED <<ldLen, ldBatch, ldWorkers, ldPc, ldEnded, ldPass, ldPerm>>

\* StopIteration: every batch of the pass has been returned.
PassEnd ==
    /\ UNCHANGED notLoaderVars
    /\ ldPc = "iter"
    /\ ldRcvd >= NumBatches(ldLen, ldBatch)
    /\ ldPc' = "idle" /\ ldEnded' = "exhausted"
    /\ UNCHANGED <<ldLen, ldBatch, ldWorkers, ldPass, ldPerm, ldSend, ldRcvd, ldQueues,
                   ldData, ldCache, ldDelivered>>

\* "for input, _, _, _ in train_loader: break": the first pass is dropped after its
\* first batch; the iterator and its workers are discarded.
AbandonPass ==
    /\ UNCHANGED notLoaderVars
    /\ ldPc = "iter" /\ ldPass = 1 /\ Len(ldDelivered) = 1
    /\ ldPc' = "idle" /\ ldEnded' = "abandoned"
    /\ ldQueues' = [w \in 1..ldWorkers |-> <<>>]
    /\ ldData' = <<>> /\ ldCache' = {}
    /\ UNCHANGED <<ldLen, ldBatch, ldWorkers, ldPass, ldPerm, ldSend, ldRcvd, ldDelivered>>

LoaderNext ==
    \/ StartPass
    \/ SingleNext
    \/ \E w \in 1..ldWorkers : WorkerFetch(w)
    \/ NextFromCache
    \/ NextFromQueue
    \/ PassEnd
    \/ AbandonPass

InitLoader == TrainIdle /\ AccIdle /\ LoaderInit /\ SplitIdle /\ ResumeIdle /\ DatasetIdle
    /\ SliceIdle /\ ValidateIdle
SpecLoader == InitLoader /\ [][LoaderNext]_vars

-----------------------------------------------------------------------------
\* split_data (input/utils.py, not among the sources: modelled from its contract) and
\* the two calls of it.

Cells(R, C) == (0..(R - 1)) \X (0..(C - 1))

\* The patch window of size p centred at (r, c) has no cell inside the image.
PatchFullyOutside(r, c, p, R, C) ==
    \/ r + (p \div 2) < 0 \/ r - (p \div 2) > R - 1
    \/ c + (p \div 2) < 0 \/ c - (p \div 2) > C - 1

\* The coordinates that survive the stride grid, the patch test and the mask.
Survives(r, c, R, C, mask, p, stride) ==
    /\ r % stride = 0 /\ c % stride = 0
    /\ ~PatchFullyOutside(r, c, p, R, C)
    /\ <<r, c>> \in mask

\* The survivors in row-major order.
RECURSIVE Enumerate(_, _, _, _, _, _)
Enumerate(i, R, C, mask, p, stride) ==
    IF i >= R * C THEN <<>>
    ELSE LET r == i \div C
             c == i % C
         IN  (IF Survives(r, c, R, C, mask, p, stride) THEN << <<r, c>> >> ELSE <<>>)
                 \o Enumerate(i + 1, R, C, mask, p, stride)

\* The reproducible pseudo-random order: the order a seed gives.
Shuffled(coords, seed) ==
    LET n == Len(coords)
    IN  [i \in 1..n |-> coords[((i - 1 + seed) % n) + 1]]

\* Variant: the second set starts at the last coordinate of the first.
CutOverlapping(order, a, b) ==
    << SubSeq(order, 1, a), SubSeq(order, IF a = 0 THEN 1 ELSE a, b),
       SubSeq(order, b + 1, Len(order)) >>

\* The shuffled survivors cut into consecutive parts by the configured proportions.
Cut(order, a, b) ==
    << SubSeq(order, 1, a), SubSeq(order, a + 1, b), SubSeq(order, b + 1, Len(order)) >>

Seeds == {0, 1}
Strides == {1, 2}
PatchSizes == {1, 3}

SplitInit ==
    /\ spEntry \in {"multitask", "single"}
    /\ spRows \in 1..MaxSide
    /\ spCols \in 1..MaxSide
    /\ spMask \in SUBSET Cells(spRows, spCols)
    /\ (spEntry = "single" => spMask = Cells(spRows, spCols))
    /\ spPatch \in PatchSizes
    /\ spStride \in Strides
    /\ spPc = "call"
    /\ spSets = NoSets

\* source/cnn/train.py:178
\*   train_set, val_set = split_data(R, C, mask, options.patch_size, options.patch_stride)
SplitMultitask ==
    /\ UNCHANGED notSplitVars
    /\ spPc = "call" /\ spEntry = "multitask"
    /\ \E seed \in Seeds :
          LET order == Shuffled(Enumerate(0, spRows, spCols, spMask, spPatch, spStride), seed)
          IN  \E a \in 0..Len(order) :
                 LET parts == Cut(order, a, Len(order))
                 IN  spSets' = [train |-> parts[1], val |-> parts[2], test |-> <<>>]
    /\ spPc' = "split"
    /\ UNCHANGED <<spEntry, spRows, spCols, spMask, spPatch, spStride>>

\* train.py:269
\*   train_set, test_set, val_set = split_data(R, C, options.patch_size, options.patch_step)
SplitSingle ==
    /\ UNCHANGED notSplitVars
    /\ spPc = "call" /\ spEntry = "single"
    /\ \E seed \in Seeds :
          LET order == Shuffled(Enumerate(0, spRows, spCols, spMask, spPatch, spStride), seed)
          IN  \E a \in 0..Len(order) : \E b \in a..Len(order) :
                 LET parts == Cut(order, a, b)
                 IN  spSets' = [train |-> parts[1], test |-> parts[2], val |-> parts[3]]
    /\ spPc' = "split"
    /\ UNCHANGED <<spEntry, spRows, spCols, spMask, spPatch, spStride>>

SplitNext ==
    \/ SplitMultitask
    \/ SplitSingle

InitSplit == TrainIdle /\ AccIdle /\ LoaderIdle /\ SplitInit /\ ResumeIdle /\ DatasetIdle
    /\ SliceIdle /\ ValidateIdle
SpecSplit == InitSplit /\ [][SplitNext]_vars

-----------------------------------------------------------------------------
\* main() of source/cnn/train.py: a run started from the command line, with or without
\* a checkpoint to resume from. The Trainer class (trainer.py) is not among the
\* sources: what it saves and what it restores is modelled from the specification.

ModelNames == {"ChenModel", "LeeModel", "PhamModel"}
SavedModelNames == ModelNames \cup {"HuModel"}

OptionsOver(models) ==
    [model : models, patch_size : PatchSizes, patch_stride : Strides,
     lr : LrChoices, batch_size : 1..MaxBatchSize]

\* A scheduler as ReduceLROnPlateau(optimizer, 'min', factor, patience) builds it.
FreshScheduler == [best |-> <<>>, numBad |-> 0]

\* The run that saved the checkpoint, after epoch ep, its learning rate reduced or not.
SavedRuns ==
    {[options |-> o, params |-> ep, lr |-> r, steps |-> ep,
      sched |-> [best |-> <<0 - 50>>, numBad |-> ep - 1], epoch |-> ep] :
        o \in OptionsOver(SavedModelNames), ep \in 1..MaxSavedEpoch,
        r \in {4, 2, 1}}

\* Trainer's checkpoint: the full snapshot of the run.
Snapshot(run) ==
    [keys |-> AllFields, options |-> run.options, model |-> run.params,
     optimizer |-> [lr |-> run.lr, steps |-> run.steps],
     scheduler |-> run.sched, epoch |-> run.epoch]

\* The files a run can be pointed at: a full snapshot, one with a field missing, and a
\* bare state dict as train.py's save_checkpoint writes it.
FileKeySets == {AllFields, AllFields \ {"optimizer"}, AllFields \ {"epoch"}, {}}

NoRun == [options |-> [model |-> "ChenModel", patch_size |-> 1, patch_stride |-> 1,
                       lr |-> 2, batch_size |-> 1],
          params |-> 1, lr |-> 2, steps |-> 1,
          sched |-> [best |-> <<0 - 50>>, numBad |-> 0], epoch |-> 1]

ResumeInit ==
    /\ rsPc = "start" /\ rsError = ""
    /\ rsCmd \in OptionsOver(ModelNames)
    /\ rsTrainFrom \in BOOLEAN
    /\ IF rsTrainFrom
       THEN /\ rsPrev \in {run \in SavedRuns : run.lr <= run.options.lr}
            /\ \E ks \in FileKeySets : rsFile = [Snapshot(rsPrev) EXCEPT !.keys = ks]
       ELSE /\ rsPrev = NoRun
            /\ rsFile = Snapshot(NoRun)
    /\ rsCheckpoint = <<>>
    /\ rsOptions = rsCmd
    /\ rsModel = <<>> /\ rsOpt = <<>> /\ rsSched = <<>>
    /\ rsEpoch = 0 /\ rsComputed = {}

Abort(reason) == rsPc' = "abort" /\ rsError' = reason

\* Variant: patch_stride is not taken from the checkpoint.
OverwrittenWithoutStride(options, ckptOptions) ==
    [options EXCEPT !.patch_size = ckptOptions.patch_size,
                    !.model = ckptOptions.model]

\* Lines 139-141: three options are overwritten with the checkpoint's.
Overwritten(options, ckptOptions) ==
    [options EXCEPT !.patch_size = ckptOptions.patch_size,
                    !.patch_stride = ckptOptions.patch_stride,
                    !.model = ckptOptions.model]

\* Lines 134-141.
LoadCheckpoint ==
    /\ UNCHANGED notResumeVars
    /\ rsPc = "start"
    /\ IF ~rsTrainFrom
       THEN /\ rsPc' = "metadata"
            /\ UNCHANGED <<rsError, rsCheckpoint, rsOptions>>
       ELSE IF "options" \notin rsFile.keys
       THEN /\ Abort("KeyError: options")
            /\ rsCheckpoint' = <<rsFile>>
            /\ UNCHANGED rsOptions
       ELSE /\ rsPc' = "metadata"
            /\ rsCheckpoint' = <<rsFile>>
            /\ rsOptions' = Overwritten(rsOptions, rsFile.options)
            /\ UNCHANGED rsError
    /\ UNCHANGED <<rsCmd, rsTrainFrom, rsPrev, rsFile, rsModel, rsOpt, rsSched, rsEpoch,
                   rsComputed>>

\* Lines 157-161: the metadata is read; assert out_cls > 0.
LoadMetadata ==
    /\ UNCHANGED notResumeVars
    /\ rsPc = "metadata"
    /\ \E outCls \in {0 - 1, 0, 2} :
          IF outCls > 0
          THEN rsPc' = "split" /\ UNCHANGED rsError
          ELSE Abort("AssertionError: Number of classes has to be > 0")
    /\ UNCHANGED <<rsCmd, rsTrainFrom, rsPrev, rsFile, rsCheckpoint, rsOptions, rsModel,
                   rsOpt, rsSched, rsEpoch, rsComputed>>

\* Lines 163-183: the image and the labels are loaded, the coordinates split, the class
\* distribution computed.
SplitAndWeights ==
    /\ UNCHANGED notResumeVars
    /\ rsPc = "split"
    /\ rsComputed' = rsComputed \cup {"split", "distribution"}
    /\ rsPc' = "model"
    /\ UNCHANGED <<rsError, rsCmd, rsTrainFrom, rsPrev, rsFile, rsCheckpoint, rsOptions,
                   rsModel, rsOpt, rsSched, rsEpoch>>

\* Lines 186-204: the if/elif chain binds model only for a known name.
BuildModel ==
    /\ UNCHANGED notResumeVars
    /\ rsPc = "model"
    /\ rsModel' = IF rsOptions.model \in ModelNames THEN <<0>> ELSE <<>>
    /\ rsPc' = "loaders"
    /\ UNCHANGED <<rsError, rsCmd, rsTrainFrom, rsPrev, rsFile, rsCheckpoint, rsOptions,
                   rsOpt, rsSched, rsEpoch, rsComputed>>

\* Lines 210-233.
BuildLoaders ==
    /\ UNCHANGED notResumeVars
    /\ rsPc = "loaders"
    /\ rsComputed' = rsComputed \cup {"loaders"}
    /\ rsPc' = "optimizer"
    /\ UNCHANGED <<rsError, rsCmd, rsTrainFrom, rsPrev, rsFile, rsCheckpoint, rsOptions,
                   rsModel, rsOpt, rsSched, rsEpoch>>

\* Lines 234-237: ModelTrain(model, ...) reads model; optim.Adam(..., lr=options.lr).
BuildOptimizer ==
    /\ UNCHANGED notResumeVars
    /\ rsPc = "optimizer"
    /\ IF rsModel = <<>>
       THEN /\ Abort("UnboundLocalError: model")
            /\ UNCHANGED rsOpt
       ELSE /\ rsOpt' = <<[lr |-> rsOptions.lr, steps |-> 0]>>
            /\ rsPc' = "restore"
            /\ UNCHANGED rsError
    /\ UNCHANGED <<rsCmd, rsTrainFrom, rsPrev, rsFile, rsCheckpoint, rsOptions, rsModel,
                   rsSched, rsEpoch, rsComputed>>

\* Variant: only the model's state dict is loaded.
RestoreStateModelOnly ==
    /\ UNCHANGED notResumeVars
    /\ rsPc = "restore"
    /\ IF rsCheckpoint = <<>>
       THEN /\ rsPc' = "peek"
            /\ UNCHANGED <<rsError, rsModel, rsOpt>>
       ELSE IF "model" \notin rsCheckpoint[1].keys
       THEN /\ Abort("KeyError: model")
            /\ UNCHANGED <<rsModel, rsOpt>>
       ELSE /\ rsModel' = <<rsCheckpoint[1].model>>
            /\ rsPc' = "peek"
            /\ UNCHANGED <<rsError, rsOpt>>
    /\ UNCHANGED <<rsCmd, rsTrainFrom, rsPrev, rsFile, rsCheckpoint, rsOptions, rsSched,
                   rsEpoch, rsComputed>>

\* Lines 241-243: load_state_dict of the model, then of the optimizer. A state dict
\* that does not fit the module built from this run's data raises.
RestoreState ==
    /\ UNCHANGED notResumeVars
    /\ rsPc = "restore"
    /\ IF rsCheckpoint = <<>>
       THEN /\ rsPc' = "peek"
            /\ UNCHANGED <<rsError, rsModel, rsOpt>>
       ELSE IF "model" \notin rsCheckpoint[1].keys
       THEN /\ Abort("KeyError: model")
            /\ UNCHANGED <<rsModel, rsOpt>>
       ELSE \/ /\ Abort("RuntimeError: load_state_dict")
               /\ UNCHANGED <<rsModel, rsOpt>>
            \/ IF "optimizer" \notin rsCheckpoint[1].keys
               THEN /\ Abort("KeyError: optimizer")
                    /\ rsModel' = <<rsCheckpoint[1].model>>
                    /\ UNCHANGED rsOpt
               ELSE /\ rsModel' = <<rsCheckpoint[1].model>>
                    /\ rsOpt' = <<rsCheckpoint[1].optimizer>>
                    /\ rsPc' = "peek"
                    /\ UNCHANGED rsError
    /\ UNCHANGED <<rsCmd, rsTrainFrom, rsPrev, rsFile, rsCheckpoint, rsOptions, rsSched,
                   rsEpoch, rsComputed>>

\* Lines 245-253: the first batch of train_loader is fetched for the model summary; with
\* an empty training set the loop body never runs and input.shape fails.
PeekBatch ==
    /\ UNCHANGED notResumeVars
    /\ rsPc = "peek"
    /\ \/ /\ rsComputed' = rsComputed \cup {"batch"}
          /\ rsPc' = "scheduler"
          /\ UNCHANGED rsError
       \/ /\ Abort("AttributeError: shape")
          /\ UNCHANGED rsComputed
    /\ UNCHANGED <<rsCmd, rsTrainFrom, rsPrev, rsFile, rsCheckpoint, rsOptions, rsModel,
                   rsOpt, rsSched, rsEpoch>>

\* Line 255: scheduler = ReduceLROnPlateau(optimizer, mode='min', factor=0.5, patience=10)
BuildScheduler ==
    /\ UNCHANGED notResumeVars
    /\ rsPc = "scheduler"
    /\ rsSched' = <<FreshScheduler>>
    /\ rsPc' = "trainer"
    /\ UNCHANGED <<rsError, rsCmd, rsTrainFrom, rsPrev, rsFile, rsCheckpoint, rsOptions,
                   rsModel, rsOpt, rsEpoch, rsComputed>>

\* Lines 261-263: Trainer(..., options, hyper_labels_reg, checkpoint) and trainer.train().
\* Given a checkpoint the trainer takes the scheduler state and the epoch index from it,
\* and fails on a checkpoint that lacks them.
TrainerStart ==
    /\ UNCHANGED notResumeVars
    /\ rsPc = "trainer"
    /\ IF rsCheckpoint = <<>>
       THEN /\ rsPc' = "training"
            /\ UNCHANGED <<rsError, rsSched, rsEpoch>>
       ELSE IF ~({"scheduler", "epoch"} \subseteq rsCheckpoint[1].keys)
       THEN /\ Abort("KeyError: scheduler or epoch")
            /\ UNCHANGED <<rsSched, rsEpoch>>
       ELSE /\ rsSched' = <<rsCheckpoint[1].scheduler>>
            /\ rsEpoch' = rsCheckpoint[1].epoch
            /\ rsPc' = "training"
            /\ UNCHANGED rsError
    /\ UNCHANGED <<rsCmd, rsTrainFrom, rsPrev, rsFile, rsCheckpoint, rsOptions, rsModel,
                   rsOpt, rsComputed>>

ResumeNext ==
    \/ LoadCheckpoint
    \/ LoadMetadata
    \/ SplitAndWeights
    \/ BuildModel
    \/ BuildLoaders
    \/ BuildOptimizer
    \/ RestoreState
    \/ PeekBatch
    \/ BuildScheduler
    \/ TrainerStart

InitResume == TrainIdle /\ AccIdle /\ LoaderIdle /\ SplitIdle /\ ResumeInit /\ DatasetIdle
    /\ SliceIdle /\ ValidateIdle
SpecResume == InitResume /\ [][ResumeNext]_vars

-----------------------------------------------------------------------------
\* HypDataset (input/data_loader.py). A tensor is a record of its shape and of its
\* elements by 0-based index tuple. get_patch (input/utils.py) is not among the
\* sources: it is modelled from the Patch Extractor's contract.

MaxGets == 2

RECURSIVE Indices(_)
Indices(shape) ==
    IF shape = <<>> THEN {<<>>}
    ELSE {<<i>> \o rest : i \in 0..(Head(shape) - 1), rest \in Indices(Tail(shape))}

RECURSIVE NElement(_)
NElement(shape) == IF shape = <<>> THEN 1 ELSE Head(shape) * NElement(Tail(shape))

TensorOf(shape, elems) == [shape |-> shape, at |-> elems, inf |-> FALSE]

\* float('inf'), the target of a task that has no labels.
Inf == [shape |-> <<>>, at |-> <<>>, inf |-> TRUE]

\* A float that is the quotient num / den of two integers; den = 0 stands for the
\* result of a float division by zero (NaN for 0 / 0, an infinity otherwise).
Frac(num, den) == [num |-> num, den |-> den]

\* t.permute(order), order given as 1-based dimension numbers.
Permute(t, order) ==
    LET n == Len(order)
        shape == [k \in 1..n |-> t.shape[order[k]]]
    IN  TensorOf(shape,
                 [ix \in Indices(shape) |->
                     t.at[[dim \in 1..n |-> ix[CHOOSE k \in 1..n : order[k] = dim]]]])

\* t.unsqueeze(0)
Unsqueeze0(t) ==
    TensorOf(<<1>> \o t.shape, [ix \in Indices(<<1>> \o t.shape) |-> t.at[Tail(ix)]])

Clamp(i, n) == IF i < 0 THEN 0 ELSE IF i > n - 1 THEN n - 1 ELSE i

\* extract(image, row, col, size): the size x size window centred at (row, col), fit to
\* the nearest in-bounds cells, across all trailing axes.
GetPatch(t, row, col, size) ==
    LET shape == <<size, size>> \o SubSeq(t.shape, 3, Len(t.shape))
    IN  TensorOf(shape,
                 [ix \in Indices(shape) |->
                     t.at[<<Clamp(row - (size \div 2) + ix[1], t.shape[1]),
                            Clamp(col - (size \div 2) + ix[2], t.shape[2])>>
                          \o SubSeq(ix, 3, Len(ix))]])

\* labels[row, col]
CenterPixel(t, row, col) ==
    TensorOf(<<t.shape[3]>>, [ix \in Indices(<<t.shape[3]>>) |-> t.at[<<row, col, ix[1]>>]])

\* src * torch.unsqueeze(src_norm_inv, -1): the multiplier broadcast across the bands.
Scaled(src, mult) ==
    TensorOf(src.shape,
             [ix \in Indices(src.shape) |-> Frac(src.at[ix] * mult.at[<<ix[1], ix[2]>>], 1)])

\* (src - self.img_min) / (self.img_max - self.img_min), elementwise in floats.
MinMaxScaled(src, imgMin, imgMax) ==
    TensorOf(src.shape,
             [ix \in Indices(src.shape) |-> Frac(src.at[ix] - imgMin, imgMax - imgMin)])

\* torch.min / torch.max over all elements.
TensorMin(t) == CHOOSE v \in {t.at[ix] : ix \in Indices(t.shape)} :
                    \A ix \in Indices(t.shape) : v <= t.at[ix]
TensorMax(t) == CHOOSE v \in {t.at[ix] : ix \in Indices(t.shape)} :
                    \A ix \in Indices(t.shape) : v >= t.at[ix]

\* Variant: the dense-label branch slices the volume without the emptiness test.
TargetDenseUnchecked(labels, row, col, size, modelName) ==
    IF modelName = "LeeModel"
    THEN Permute(GetPatch(labels, row, col, size), <<3, 1, 2>>)
    ELSE IF NElement(labels.shape) = 0 THEN Inf
    ELSE CenterPixel(labels, row, col)

\* Lines 55-74: the target of one task.
Target(labels, row, col, size, modelName) ==
    IF NElement(labels.shape) = 0 THEN Inf
    ELSE IF modelName = "LeeModel"
    THEN Permute(GetPatch(labels, row, col, size), <<3, 1, 2>>)
    ELSE CenterPixel(labels, row, col)

\* Line 80.
NeedsVolumeAxis(is3d, size) == is3d /\ size > 1

\* __getitem__(idx), lines 45-82, as a function of the dataset's fields.
GetItemOf(idx) ==
    LET row == dsCoords[idx + 1][1]
        col == dsCoords[idx + 1][2]
        patch == GetPatch(dsImage, row, col, dsPatchSize)
        src == IF dsMultiplier # <<>>
               THEN Scaled(patch, GetPatch(dsMultiplier[1], row, col, dsPatchSize))
               ELSE MinMaxScaled(patch, dsMin, dsMax)
        chw == Permute(src, <<3, 1, 2>>)
    IN  [src |-> IF NeedsVolumeAxis(dsIs3d, dsPatchSize) THEN Unsqueeze0(chw) ELSE chw,
         tgt_cls |-> Target(dsLabelsCls, row, col, dsPatchSize, dsModelName),
         tgt_reg |-> Target(dsLabelsReg, row, col, dsPatchSize, dsModelName),
         idx |-> idx]

ImageShapes == {<<1, 1, 1>>, <<1, 2, 1>>, <<2, 2, 1>>, <<1, 1, 2>>}
PixelValues == {0, 5, 10}
DatasetModels == {"LeeModel", "ChenModel"}

\* A label volume: one-hot classes, or continuous labels; n = 0 is the empty volume.
OneHotLabels(R, C, n) ==
    TensorOf(<<R, C, n>>,
             [ix \in Indices(<<R, C, n>>) |-> IF ix[3] = (ix[1] + ix[2]) % 2 THEN 1 ELSE 0])
ContinuousLabels(R, C, n) ==
    TensorOf(<<R, C, n>>, [ix \in Indices(<<R, C, n>>) |-> 1 + 2 * ix[1] + ix[2]])

\* The coordinates of a split of the image: every cell in row-major order, or the last.
RowMajor(R, C) == [k \in 1..(R * C) |-> <<(k - 1) \div C, (k - 1) % C>>]
CoordChoices(R, C) == {RowMajor(R, C), <<<<R - 1, C - 1>>>>}

\* HypDataset(...): lines 24-37.
DatasetInit ==
    /\ dsPc = "ready"
    /\ \E shape \in ImageShapes :
          /\ dsImage \in {TensorOf(shape, f) : f \in [Indices(shape) -> PixelValues]}
          /\ dsMultiplier \in
                {<<>>, <<TensorOf(<<shape[1], shape[2]>>,
                                  [ix \in Indices(<<shape[1], shape[2]>>) |-> 2])>>}
          /\ \E n \in {0, 2} : dsLabelsCls = OneHotLabels(shape[1], shape[2], n)
          /\ \E n \in {0, 1} : dsLabelsReg = ContinuousLabels(shape[1], shape[2], n)
          /\ dsCoords \in CoordChoices(shape[1], shape[2])
    /\ dsPatchSize \in PatchSizes
    /\ dsModelName \in DatasetModels
    /\ dsIs3d \in BOOLEAN
    /\ dsMin = TensorMin(dsImage)
    /\ dsMax = TensorMax(dsImage)
    /\ dsOut = <<>>
    /\ dsFirst = [i \in 0..(Len(dsCoords) - 1) |-> <<>>]
    /\ dsCalls = 0

\* Variant: the multiplier is applied to the image in place.
GetItemInPlace ==
    /\ UNCHANGED notDatasetVars
    /\ dsPc = "ready" /\ dsCalls < MaxGets
    /\ \E idx \in 0..(Len(dsCoords) - 1) :
          /\ dsOut' = <<GetItemOf(idx)>>
          /\ dsFirst' = IF dsFirst[idx] = <<>> THEN [dsFirst EXCEPT ![idx] = <<GetItemOf(idx)>>]
                        ELSE dsFirst
          /\ dsImage' = IF dsMultiplier = <<>> THEN dsImage
                        ELSE [dsImage EXCEPT !.at[<<dsCoords[idx + 1][1], dsCoords[idx + 1][2], 0>>] = 2 * @]
    /\ dsCalls' = dsCalls + 1
    /\ UNCHANGED <<dsPc, dsMultiplier, dsLabelsCls, dsLabelsReg, dsCoords, dsPatchSize,
                   dsModelName, dsIs3d, dsMin, dsMax>>

\* dataset[idx] for an index 0 <= idx < len(dataset); nothing of self is assigned.
GetItem ==
    /\ UNCHANGED notDatasetVars
    /\ dsPc = "ready" /\ dsCalls < MaxGets
    /\ \E idx \in 0..(Len(dsCoords) - 1) :
          /\ dsOut' = <<GetItemOf(idx)>>
          /\ dsFirst' = IF dsFirst[idx] = <<>> THEN [dsFirst EXCEPT ![idx] = <<GetItemOf(idx)>>]
                        ELSE dsFirst
    /\ dsCalls' = dsCalls + 1
    /\ UNCHANGED <<dsPc, dsImage, dsMultiplier, dsLabelsCls, dsLabelsReg, dsCoords,
                   dsPatchSize, dsModelName, dsIs3d, dsMin, dsMax>>

\* __len__, line 85.
DatasetLen == Len(dsCoords)

DatasetNext == GetItem

InitDataset == TrainIdle /\ AccIdle /\ LoaderIdle /\ SplitIdle /\ ResumeIdle /\ DatasetInit
    /\ SliceIdle /\ ValidateIdle
SpecDataset == InitDataset /\ [][DatasetNext]_vars

-----------------------------------------------------------------------------
\* The label volume is cut along its band axis into the classification and the
\* regression volume, by either main().

MaxBands == 4

\* seq[lo:hi] of Python, 0-based, for 0 <= lo; hi is clipped to the length.
PySlice(seq, lo, hi) ==
    LET top == IF hi > Len(seq) THEN Len(seq) ELSE hi
    IN  IF lo >= top THEN <<>> ELSE SubSeq(seq, lo + 1, top)

\* torch.load(options.tgt_path), and num_classes of the metadata (asserted > 0).
SliceInit ==
    /\ slPc = "loaded"
    /\ slEntry \in {"multitask", "single"}
    /\ \E B \in 1..MaxBands :
          /\ slLabels \in {[k \in 1..B |-> [band |-> k - 1, value |-> f[k]]] :
                             f \in [1..B -> {0, 1}]}
          /\ slClasses \in 1..B
    /\ slCls = <<>> /\ slReg = <<>>

\* source/cnn/train.py:167-168
\*   hyper_labels_cls = hyper_labels[:, :, :out_cls]
\*   hyper_labels_reg = hyper_labels[:, :, out_cls:]
SliceMultitask ==
    /\ UNCHANGED notSliceVars
    /\ slPc = "loaded" /\ slEntry = "multitask"
    /\ slCls' = PySlice(slLabels, 0, slClasses)
    /\ slReg' = PySlice(slLabels, slClasses, Len(slLabels))
    /\ slPc' = "sliced"
    /\ UNCHANGED <<slEntry, slLabels, slClasses>>

\* train.py:258-259
\*   hyper_labels_cls = hyper_labels[:, :, :output_classes]
\*   hyper_labels_reg = hyper_labels[:, :, (output_classes + 1):]
SliceSingle ==
    /\ UNCHANGED notSliceVars
    /\ slPc = "loaded" /\ slEntry = "single"
    /\ slCls' = PySlice(slLabels, 0, slClasses)
    /\ slReg' = PySlice(slLabels, slClasses + 1, Len(slLabels))
    /\ slPc' = "sliced"
    /\ UNCHANGED <<slEntry, slLabels, slClasses>>

SliceNext ==
    \/ SliceMultitask
    \/ SliceSingle

InitSlice ==
    /\ TrainIdle /\ AccIdle /\ LoaderIdle /\ SplitIdle /\ ResumeIdle /\ DatasetIdle
    /\ SliceInit /\ ValidateIdle
SpecSlice == InitSlice /\ [][SliceNext]_vars

-----------------------------------------------------------------------------
\* validate() of train.py, lines 134-155, over a validation set: per batch
\* sum_accuracy += compute_accuracy(predict, tgt, metadata), at the end
\* accuracy = sum_accuracy * 100 / len(val_loader).

ValLayouts == {<<2>>, <<1, 2>>}

\* a / b + c / d
AddFrac(x, y) == <<x[1] * y[2] + y[1] * x[2], x[2] * y[2]>>

ValidateInit ==
    /\ vlPc = "loop"
    /\ vlGroups \in ValLayouts
    /\ \E n \in 1..MaxLen :
          /\ vlPredict \in [1..n -> PredRows(vlGroups)]
          /\ vlTgt \in [1..n -> TgtRows(vlGroups)]
    /\ vlBatchSize \in 1..MaxBatchSize
    /\ vlIdx = 0 /\ vlSum = <<0, 1>> /\ vlResult = <<>>

\* One iteration of the loop, lines 139-150.
ValidateStep ==
    /\ UNCHANGED notValidateVars
    /\ vlPc = "loop" /\ vlIdx < NumBatches(Len(vlPredict), vlBatchSize)
    /\ LET lo == vlIdx * vlBatchSize + 1
           hi == Min((vlIdx + 1) * vlBatchSize, Len(vlPredict))
           acc == ComputeAccuracyOf(SubSeq(vlPredict, lo, hi), SubSeq(vlTgt, lo, hi), vlGroups)
       IN  vlSum' = AddFrac(vlSum, acc)
    /\ vlIdx' = vlIdx + 1
    /\ UNCHANGED <<vlPc, vlGroups, vlPredict, vlTgt, vlBatchSize, vlResult>>

\* Lines 152-155: accuracy = sum_accuracy * 100 / len(val_loader).
ValidateFinish ==
    /\ UNCHANGED notValidateVars
    /\ vlPc = "loop" /\ ~(vlIdx < NumBatches(Len(vlPredict), vlBatchSize))
    /\ vlResult' = <<vlSum[1] * 100, vlSum[2] * NumBatches(Len(vlPredict), vlBatchSize)>>
    /\ vlPc' = "done"
    /\ UNCHANGED <<vlGroups, vlPredict, vlTgt, vlBatchSize, vlIdx, vlSum>>

ValidateNext ==
    \/ ValidateStep
    \/ ValidateFinish

InitValidate ==
    /\ TrainIdle /\ AccIdle /\ LoaderIdle /\ SplitIdle /\ ResumeIdle /\ DatasetIdle
    /\ SliceIdle /\ ValidateInit
SpecValidate == InitValidate /\ [][ValidateNext]_vars

-----------------------------------------------------------------------------
\* Properties of the training loop (specification Spec).

\* C1: train() stops after exactly options.epoch iterations of (train epoch, validate,
\* scheduler step, checkpoint), for every options.epoch >= 0, with no extra epoch.
C1_ExactlyConfiguredEpochs ==
    (pc = "done" /\ optEpoch >= 0) =>
        /\ hist["trainStart"] = optEpoch
        /\ hist["ckpt"] = optEpoch

\* C2: within every epoch the phases run in the order TrainEpoch, ValidateEpoch,
\* ScheduleStep, CheckpointMaybe: validation starts only after every training batch of
\* the epoch, the scheduler step only after validation, the checkpoint only after the
\* scheduler step, and the next epoch only after the checkpoint phase.
C2_PhaseOrder ==
    /\ hist["trainEnd"] <= hist["trainStart"]
    /\ hist["valStart"] <= hist["trainEnd"]
    /\ hist["valEnd"] <= hist["valStart"]
    /\ hist["sched"] <= hist["valEnd"]
    /\ hist["ckpt"] <= hist["sched"]
    /\ hist["trainStart"] <= hist["ckpt"] + 1
    /\ (pc \in {"val", "sched", "ckpt"} =>
            /\ batchIdx = NumBatches(trainLen, batchSize)
            /\ trainStep = hist["trainStart"] * NumBatches(trainLen, batchSize))
    /\ (pc \in {"sched", "ckpt"} => valIdx = NumBatches(valLen, batchSize))

C2_Witness ==
    /\ pc = "ckpt" /\ hist["ckpt"] = 2 /\ hist["sched"] = 3
    /\ NumBatches(trainLen, batchSize) = 2 /\ NumBatches(valLen, batchSize) = 2

\* C3: every checkpoint persisted at the save cadence holds all five fields: model
\* parameters, optimizer state, scheduler state, training options and epoch index.
C3_FullSnapshot == \A c \in ckpts : c.fields = AllFields

\* C6: validation updates nothing: between the last training batch of an epoch and the
\* scheduler step (the epoch average and the whole of validate()), the model parameters,
\* the optimizer state, the gradients and the learning rate stay as they were: no
\* backward pass and no optimizer step.
C6_Frame ==
    pc \in {"avg", "val"} =>
        /\ params' = params
        /\ optSteps' = optSteps
        /\ gradCount' = gradCount
        /\ lr' = lr

C6_ValidateUpdatesNothing == [][C6_Frame]_vars

C6_Witness ==
    /\ pc = "sched" /\ valIdx = 2 /\ hist["valEnd"] = 2 /\ params = 4

\* C10: the scheduler is stepped exactly once per epoch, after validation; a plateau
\* scheduler is fed -val_accuracy and multiplies the learning rate by the factor only
\* when the accuracy has not improved for more than Patience consecutive epochs, and
\* leaves it unchanged otherwise; another scheduler type is stepped once per epoch.
C10_OncePerEpoch ==
    schedKind \in {"plateau", "other"} =>
        /\ schedSteps = hist["sched"]
        /\ schedSteps <= hist["valEnd"]
        /\ schedSteps = (IF pc = "ckpt" THEN e + 1 ELSE e)

C10_PlateauOnly ==
    (schedKind = "plateau" /\ lr' # lr) =>
        /\ pc = "sched"
        /\ lr' * FactorDen = lr
        /\ accBadRun' > Patience

C10_SchedulerStep == []C10_OncePerEpoch /\ [][C10_PlateauOnly]_vars

C10_Witness == schedKind = "plateau" /\ lr < optLr /\ pc = "ckpt" /\ schedSteps = e + 1

-----------------------------------------------------------------------------
\* Properties of compute_accuracy (specification SpecAccuracy).

\* First class index of group g in a row.
RECURSIVE GroupStart(_, _)
GroupStart(groups, g) == IF g = 1 THEN 0 ELSE GroupStart(groups, g - 1) + groups[g - 1]

\* Examples whose arg-max over group g's slice of the prediction equals the arg-max over
\* the same slice of the target.
GroupMatches(g) ==
    Cardinality({i \in 1..Len(accPredict) :
        LET lo == GroupStart(accGroups, g) + 1
            hi == GroupStart(accGroups, g) + accGroups[g]
        IN  ArgMax([j \in 1..(hi - lo + 1) |-> accPredict[i][lo + j - 1]])
              = ArgMax([j \in 1..(hi - lo + 1) |-> accTgt[i][lo + j - 1]])})

RECURSIVE SumMatches(_)
SumMatches(g) == IF g = 0 THEN 0 ELSE SumMatches(g - 1) + GroupMatches(g)

-----------------------------------------------------------------------------
\* Properties of the batch loader (specification SpecLoader).

RECURSIVE Flatten(_)
Flatten(batches) == IF batches = <<>> THEN <<>> ELSE Head(batches) \o Flatten(Tail(batches))

\* ceil(n / d), by its defining inequalities.
CeilDiv(n, d) == CHOOSE q \in 0..n : q * d >= n /\ (q = 0 \/ (q - 1) * d < n)

\* C9: in every pass each dataset index 0..length-1 is delivered in exactly one batch and
\* exactly once, the pass ends after ceil(length / batch_size) batches, whatever the
\* number of workers and their interleaving, also when the pass follows one that was
\* abandoned after its first batch. During a pass nothing is delivered twice and the
\* batches are those of the shuffled order, in that order.
C9_EachIndexOnce ==
    LET flat == Flatten(ldDelivered)
    IN  /\ \A i, j \in 1..Len(flat) : i # j => flat[i] # flat[j]
        /\ \A k \in 1..Len(ldDelivered) :
              /\ Len(ldDelivered[k]) >= 1 /\ Len(ldDelivered[k]) <= ldBatch
              /\ \A i \in 1..Len(ldDelivered[k]) :
                    ldDelivered[k][i] = ldPerm[(k - 1) * ldBatch + i]
        /\ (ldPc = "idle" /\ ldEnded = "exhausted") =>
              /\ Len(ldDelivered) = CeilDiv(ldLen, ldBatch)
              /\ {flat[i] : i \in 1..Len(flat)} = 0..(ldLen - 1)
              /\ Len(flat) = ldLen

C9_Witness ==
    /\ ldPc = "idle" /\ ldEnded = "exhausted" /\ ldPass = 2
    /\ ldWorkers = 2 /\ ldLen = 3 /\ ldBatch = 1
    /\ Len(ldDelivered) = 3

-----------------------------------------------------------------------------
\* Properties of the coordinate split (specification SpecSplit).

SeqSet(q) == {q[i] : i \in 1..Len(q)}

\* The coordinates that pass the mask and stride filter, as a set.
Surviving ==
    {rc \in Cells(spRows, spCols) :
        /\ rc[1] % spStride = 0 /\ rc[2] % spStride = 0
        /\ rc \in spMask}

\* C8 as stated: the train and validation sets share no coordinate and their sizes add
\* up to the number of coordinates that survive the mask and stride filter.
C8_TrainValPartition ==
    spPc = "split" =>
        /\ SeqSet(spSets.train) \cap SeqSet(spSets.val) = {}
        /\ Len(spSets.train) + Len(spSets.val) = Cardinality(Surviving)

\* C8, amended: the sets split_data returns (train and validation, and the test set of
\* the three-way call) are pairwise disjoint, hold no coordinate twice, and together are
\* exactly the surviving coordinates; with the two-way call train and validation alone
\* partition them.
C8_ReturnedSetsPartition ==
    spPc = "split" =>
        /\ SeqSet(spSets.train) \cap SeqSet(spSets.val) = {}
        /\ SeqSet(spSets.train) \cap SeqSet(spSets.test) = {}
        /\ SeqSet(spSets.val) \cap SeqSet(spSets.test) = {}
        /\ Len(spSets.train) + Len(spSets.val) + Len(spSets.test) = Cardinality(Surviving)
        /\ SeqSet(spSets.train) \cup SeqSet(spSets.val) \cup SeqSet(spSets.test) = Surviving
        /\ (spEntry = "multitask" =>
               Len(spSets.train) + Len(spSets.val) = Cardinality(Surviving))

C8_Witness ==
    /\ spPc = "split" /\ spEntry = "single"
    /\ Len(spSets.train) = 2 /\ Len(spSets.val) = 1 /\ Len(spSets.test) = 1
    /\ Cardinality(Surviving) = 4

-----------------------------------------------------------------------------
\* Properties of a resumed run (specification SpecResume).

-----------------------------------------------------------------------------
\* Further properties of the training loop (specification Spec).

C11_BatchOrder ==
    /\ pc = "zero" => (pc' = "fwd" /\ gradCount' = 0)
    /\ pc = "fwd" => (pc' = "bwd" /\ gradCount' = gradCount)
    /\ pc = "bwd" => (pc' = "step" /\ gradCount' = gradCount + 1)
    /\ optSteps' # optSteps =>
          /\ pc = "step" /\ gradCount = 1
          /\ optSteps' = optSteps + 1 /\ batchIdx' = batchIdx + 1

C11_StepsPerEpoch ==
    pc \in {"val", "sched", "ckpt"} =>
        /\ batchIdx = NumBatches(trainLen, batchSize)
        /\ optSteps = (e + 1) * NumBatches(trainLen, batchSize)

\* C11: within an epoch each training batch is processed as gradient reset, forward pass
\* and loss, back-propagation, optimizer step; every optimizer step is taken on the
\* gradients of exactly one backward pass since the last reset; when the epoch's training
\* pass is over the optimizer has stepped once per training batch.
C11_TrainEpoch == []C11_StepsPerEpoch /\ [][C11_BatchOrder]_vars

C11_Witness ==
    /\ pc = "sched" /\ e = 1
    /\ NumBatches(trainLen, batchSize) = 3
    /\ optSteps = 6 /\ gradCount = 1

-----------------------------------------------------------------------------
\* Configuration errors of a run (specification SpecResume).

\* C12: a run whose model name in effect is not a known variant, or whose class count
\* is zero or negative, has executed none of the coordinate split, the class
\* distribution, the loader construction and a batch fetch, at any point up to and
\* including the error that ends it.
C12_ConfigErrorBeforeComputation ==
    /\ (rsPc # "start" /\ rsOptions.model \notin ModelNames) => rsComputed = {}
    /\ rsError = "AssertionError: Number of classes has to be > 0" => rsComputed = {}

-----------------------------------------------------------------------------
\* Numeric errors of the training loop (specification SpecNumeric).

\* C13: a training step whose loss is NaN or infinite is flagged before the optimizer
\* step: the optimizer never steps on a non-finite loss, so the parameters and the
\* optimizer state stay finite.
C13_NonFiniteLossFlagged ==
    /\ pc = "step" => loss = "finite"
    /\ stateFinite

-----------------------------------------------------------------------------
\* Properties of HypDataset (specification SpecDataset).

\* C14: a dataset built with is_3d_convolution set returns, for every index and every
\* patch size including 1, an input of shape (1, bands, size, size).
C14_VolumeAxis ==
    (dsIs3d /\ dsOut # <<>>) =>
        dsOut[1].src.shape = <<1, dsImage.shape[3], dsPatchSize, dsPatchSize>>

\* The target of one task is the labels at the coordinate: per centre pixel, or the
\* patch centred there with the labels leading.
LabelsAt(tgt, labels, row, col) ==
    IF dsModelName = "LeeModel"
    THEN /\ tgt.shape = <<labels.shape[3], dsPatchSize, dsPatchSize>>
         /\ \A k \in 0..(labels.shape[3] - 1) :
               tgt.at[<<k, dsPatchSize \div 2, dsPatchSize \div 2>>] = labels.at[<<row, col, k>>]
    ELSE /\ tgt.shape = <<labels.shape[3]>>
         /\ \A k \in 0..(labels.shape[3] - 1) : tgt.at[<<k>>] = labels.at[<<row, col, k>>]

\* C15: for every index and both model flags, get returns the sentinel as the
\* classification target exactly when the classification volume has no elements and as
\* the regression target exactly when the regression volume has no elements, each
\* independently of the other; a non-empty volume yields the labels at the index's
\* coordinate.
C15_SentinelPerTask ==
    dsOut # <<>> =>
        LET o == dsOut[1]
            row == dsCoords[o.idx + 1][1]
            col == dsCoords[o.idx + 1][2]
        IN  /\ o.tgt_cls.inf <=> (NElement(dsLabelsCls.shape) = 0)
            /\ o.tgt_reg.inf <=> (NElement(dsLabelsReg.shape) = 0)
            /\ ~o.tgt_cls.inf => LabelsAt(o.tgt_cls, dsLabelsCls, row, col)
            /\ ~o.tgt_reg.inf => LabelsAt(o.tgt_reg, dsLabelsReg, row, col)

C15_Witness ==
    /\ dsOut # <<>> /\ dsModelName = "LeeModel" /\ dsPatchSize = 3
    /\ dsOut[1].tgt_cls.inf /\ ~dsOut[1].tgt_reg.inf
    /\ dsOut[1].idx = 1

\* C16: with no multiplier every value of a returned patch is (v - m) / (M - m) for the
\* image's minimum m and maximum M and lies in [0, 1], for every image, an image of
\* equal values included.
C16_MinMaxInUnitInterval ==
    (dsOut # <<>> /\ dsMultiplier = <<>>) =>
        \A ix \in Indices(dsOut[1].src.shape) :
            LET x == dsOut[1].src.at[ix]
            IN  x.den > 0 /\ 0 <= x.num /\ x.num <= x.den

C17_Frame ==
    /\ UNCHANGED <<dsImage, dsMultiplier, dsLabelsCls, dsLabelsReg, dsCoords, dsMin, dsMax,
                   dsPatchSize, dsModelName, dsIs3d>>
    /\ dsOut' # <<>> => dsOut'[1] = dsFirst'[dsOut'[1].idx][1]

C17_SameAsFirst ==
    dsOut # <<>> =>
        /\ dsOut[1] = dsFirst[dsOut[1].idx][1]
        /\ dsOut[1] = GetItemOf(dsOut[1].idx)
        /\ DatasetLen = Cardinality(DOMAIN dsFirst)

\* C17: after any sequence of get calls the dataset's image, multiplier, label volumes,
\* coordinates and stored minimum and maximum are unchanged, get(i) returns what the
\* first get(i) returned, and length() is the number of coordinates the dataset was
\* built with.
C17_GetIdempotent == []C17_SameAsFirst /\ [][C17_Frame]_vars

C17_Witness ==
    /\ dsCalls = 2 /\ dsOut # <<>> /\ dsMultiplier # <<>>
    /\ Len(dsCoords) = 2 /\ dsOut[1].idx = 0 /\ dsFirst[1] = <<>>

-----------------------------------------------------------------------------
\* Properties of the label slicing (specification SpecSlice).

\* C18: in every entry point, with C classes and B label bands, the classification
\* volume is exactly bands 0..C-1 and the regression volume exactly bands C..B-1, with
\* the values of the label volume: no band is dropped or shared.
C18_BandPartition ==
    slPc = "sliced" =>
        /\ slCls = [k \in 1..slClasses |-> slLabels[k]]
        /\ slReg = [k \in 1..(Len(slLabels) - slClasses) |-> slLabels[slClasses + k]]

-----------------------------------------------------------------------------
\* Properties of validate() (specification SpecValidate).

\* C19: for every validation set size and batch size, validate() returns
\* 100 * (correct (example, group) matches over all batches) /
\* (number of validation examples * number of groups).
C19_AccuracyOverValidationSet ==
    vlResult # <<>> =>
        vlResult[1] * (Len(vlPredict) * Len(vlGroups)) =
            100 * AccLoop(vlGroups, vlPredict, vlTgt, 0, 0) * vlResult[2]

====
